---- MODULE Spec2Model ----
(***************************************************************************)
(* SmartLensOCR: the region workflow of App.tsx and the two service calls  *)
(* of services/geminiService.ts.                                           *)
(*                                                                         *)
(* One action is one run-to-completion segment of a handler: the code of   *)
(* an event handler, or of an async function between two awaits, whose     *)
(* state writes React commits together.  The file read, the detect call    *)
(* and the extract call are the suspension points; what is suspended is    *)
(* kept in reads, detects and extracts together with the values its        *)
(* closure captured.                                                       *)
(***************************************************************************)
EXTENDS Integers, Sequences, FiniteSets, TLC

\* ---------------------------------------------------------------- bounds
MaxUploads  == 2     \* files selected in one run
MaxExtracts == 2     \* extract calls issued in one run
MaxEntries  == 2     \* entries of a detection response
MaxCredits  == 3     \* purchases keep the credit balance within 0..MaxCredits
MaxFnEntries == 3    \* entries of a detection response, detectRegions alone
MaxSent     == 4     \* regions of a list given to extractTextFromRegions alone

\* ------------------------------------------------------- program values
LoginCredits == 3    \* handleLogin: credits: 3
NullImage    == 0    \* useState<string | null>(null); image k > 0 is upload k
EmptyText    == 0    \* useState<string>(''); text k > 0 is the OCR of image k

NoUser       == <<>>            \* user === null
UserWith(c)  == <<c>>           \* a User with credits c
Credits(u)   == u[1]

NoError      == "null"
DetectError  == "AI Layout detection failed. Please try a clearer image."
ExtractError == "High-precision extraction failed. No credits were deducted."

AppStates == {"Idle", "Uploading", "DetectingRegions", "Interacting",
              "Extracting", "Finished"}

Undefined == "undefined"        \* a field the response object lacks
Descriptions == {"Title", "Body"}
PurchaseAmounts == {1}           \* what PricingModal hands to onPurchase
Box       == [ymin |-> 0, xmin |-> 0, ymax |-> 1000, xmax |-> 1000]
UndefBox  == [ymin |-> -1, xmin |-> -1, ymax |-> -1, xmax |-> -1]

VARIABLES
    user, showLogin, showPricing,             \* auth & monetization state
    appState, image, regions, finalText, error,   \* app logic state
    reads,        \* uploads whose FileReader has not fired onloadend
    detects,      \* uploads whose detectRegions call is awaited
    extracts,     \* awaited extractTextFromRegions calls with what the handler
                  \* closed over: image, regions, the credits of `user`
    nUploads, nExtracts,                      \* files selected, calls issued
    mounted,      \* the App component is mounted: FALSE once a state updater
                  \* has thrown while React rendered (there is no error boundary)
    lastResp,     \* history: the response of the detect call that settled last
    lastCall,     \* history: the last call of moveRegion or of the toggle
                  \*          updater made with an id of any kind, and the list
                  \*          it was made on
    path          \* history: the workflow states visited, kept while no reset,
                  \*          logout or failure has happened (<<>> afterwards)

vars == <<user, showLogin, showPricing, appState, image, regions, finalText,
          error, reads, detects, extracts, nUploads, nExtracts,
          mounted, lastResp, lastCall, path>>


\* ----------------------------------------------------- remote responses
\* What generateContent can hand to detectRegions: the call rejects, or it
\* resolves with a text that is absent/empty, not JSON, JSON that is not an
\* array, or a JSON array.  An array entry is an object with the five
\* fields, an object without them ({}), or null.
Entry(d, b)   == [kind |-> "object", description |-> d, box |-> b]
MissingEntry  == Entry(Undefined, UndefBox)
NullEntry     == [kind |-> "null", description |-> Undefined, box |-> UndefBox]
WellFormedEntries == {Entry(d, Box) : d \in Descriptions}
Entries       == WellFormedEntries \cup {MissingEntry, NullEntry}

SeqsUpTo(S, n) == UNION {[1..k -> S] : k \in 0..n}

NoResp == [kind |-> "none", entries |-> <<>>]
NoCall == [op |-> "none", id |-> 0, direction |-> "none", prev |-> <<>>]
Responses(E, n) ==
    {[kind |-> k, entries |-> <<>>] :
        k \in {"rejected", "noText", "invalidJson", "notArray"}}
    \cup {[kind |-> "array", entries |-> es] : es \in SeqsUpTo(E, n)}

\* the draws of Math.random the workflow is run with: no two regions of a
\* batch draw the same id (a batch with a repeated id is an input of the
\* specifications that run the list operations alone)
WorkflowDraws == {[i \in 1..MaxEntries |-> i]}

\* the responses the workflow is run with: every kind, the arrays with
\* well-formed entries of one description (the fields of an entry play no
\* part in the workflow)
WorkflowResponses ==
    Responses({Entry("Title", Box)}, MaxEntries)

WellFormed(resp) ==
    /\ resp.kind = "array"
    /\ \A i \in 1..Len(resp.entries) : resp.entries[i] \in WellFormedEntries

\* ------------------------------------------------------- geminiService.ts
Err == [ok |-> FALSE, regions |-> <<>>]

\* const jsonStr = response.text || "[]"; const rawRegions = JSON.parse(jsonStr)
JSONparse(resp) ==
    CASE resp.kind = "noText"      -> [throws |-> FALSE, isArray |-> TRUE,  entries |-> <<>>]
      [] resp.kind = "invalidJson" -> [throws |-> TRUE,  isArray |-> FALSE, entries |-> <<>>]
      [] resp.kind = "notArray"    -> [throws |-> FALSE, isArray |-> FALSE, entries |-> <<>>]
      [] OTHER                     -> [throws |-> FALSE, isArray |-> TRUE,  entries |-> resp.entries]

\* mutant of detectRegions: order: index
detectRegions_OrderIsIndex(resp, ids) ==
    IF resp.kind # "array" THEN [ok |-> resp.kind = "noText", regions |-> <<>>]
    ELSE IF \E i \in 1..Len(resp.entries) : resp.entries[i].kind = "null" THEN
         [ok |-> FALSE, regions |-> <<>>]
    ELSE [ok |-> TRUE,
          regions |-> [i \in 1..Len(resp.entries) |->
              [id          |-> ids[i],
               description |-> resp.entries[i].description,
               box         |-> resp.entries[i].box,
               order       |-> i - 1,
               isActive    |-> TRUE]]]

\* rawRegions.map((r, index) => ({id, description, box, order: index + 1,
\* isActive: true})); ids[i] is the draw of Math.random for entry i.  The
\* result is [ok, regions]: ok = FALSE is the rethrown error.
detectRegions(resp, ids) ==
    IF resp.kind = "rejected" THEN Err
    ELSE LET raw == JSONparse(resp) IN
         IF raw.throws \/ ~raw.isArray THEN Err
         ELSE IF \E i \in 1..Len(raw.entries) : raw.entries[i].kind = "null" THEN Err
         ELSE [ok |-> TRUE,
               regions |-> [i \in 1..Len(raw.entries) |->
                   [id          |-> ids[i],
                    description |-> raw.entries[i].description,
                    box         |-> raw.entries[i].box,
                    order       |-> (i - 1) + 1,
                    isActive    |-> TRUE]]]

\* newArr.sort((a, b) => a.order - b.order): a stable sort
RECURSIVE Insert(_, _)
Insert(s, r) ==
    IF s = <<>> THEN <<r>>
    ELSE IF Head(s).order <= r.order THEN <<Head(s)>> \o Insert(Tail(s), r)
    ELSE <<r>> \o s

RECURSIVE SortByOrder(_)
SortByOrder(s) ==
    IF s = <<>> THEN <<>>
    ELSE Insert(SortByOrder(SubSeq(s, 1, Len(s) - 1)), s[Len(s)])

IsActive(r) == r.isActive

\* mutant of activeRegions: the filter is missing
activeRegions_NoFilter(list) == SortByOrder(list)

\* [...regions].filter(r => r.isActive).sort((a, b) => a.order - b.order)
activeRegions(list) == SortByOrder(SelectSeq(list, IsActive))

\* mutant of issuesRemoteCall: the early return is missing
issuesRemoteCall_Always(list) == TRUE

\* if (activeRegions.length === 0) return ""; otherwise generateContent is
\* awaited
issuesRemoteCall(list) == activeRegions(list) # <<>>

\* activeRegions.map(r => `Region ${r.order}: coordinates [${r.box.ymin},
\* ${r.box.xmin}, ${r.box.ymax}, ${r.box.xmax}]`): what of each region the
\* prompt carries
regionsDescription(active) ==
    [i \in 1..Len(active) |-> [order |-> active[i].order, box |-> active[i].box]]

\* ---------------------------------------------------------------- App.tsx
\* prev.findIndex(r => r.id === id), 0-based, -1 when absent
findIndex(prev, id) ==
    IF \E i \in 1..Len(prev) : prev[i].id = id
    THEN (CHOOSE i \in 1..Len(prev) :
             /\ prev[i].id = id
             /\ \A j \in 1..(i - 1) : prev[j].id # id) - 1
    ELSE -1

\* mutant of SwapOrder: the neighbour's order is not written back
SwapOrder_OneWay(arr, i, j) ==
    [arr EXCEPT ![i + 1].order = arr[j + 1].order]

\* tempOrder = newArr[i].order; newArr[i].order = newArr[j].order;
\* newArr[j].order = tempOrder; i and j are 0-based
SwapOrder(arr, i, j) ==
    [arr EXCEPT ![i + 1].order = arr[j + 1].order,
                ![j + 1].order = arr[i + 1].order]

\* the updater throws: for an id the list lacks findIndex gives -1, and with
\* 'down' on a list that is not empty -1 < prev.length - 1 holds, so
\* newArr[-1].order is read of undefined (a TypeError)
moveRegionThrows(prev, id, direction) ==
    /\ direction = "down"
    /\ findIndex(prev, id) = -1
    /\ findIndex(prev, id) < Len(prev) - 1

\* the records of prev as the updater leaves them: newArr = [...prev] copies
\* the array, not the records, so the two order writes land in the records
\* of prev; the sort reorders newArr alone
moveRegionPrev(prev, id, direction) ==
    LET index == findIndex(prev, id)
    IN  IF direction = "up" /\ index > 0
            THEN SwapOrder(prev, index, index - 1)
        ELSE IF direction = "down" /\ index < Len(prev) - 1
            THEN SwapOrder(prev, index, index + 1)
        ELSE prev

\* mutant of moveRegion: 'up' lacks the index > 0 test and wraps around
moveRegion_Wraps(prev, id, direction) ==
    LET index  == findIndex(prev, id)
        newArr == IF direction = "up" /\ index >= 0
                      THEN SwapOrder(prev, index, (index - 1) % Len(prev))
                  ELSE IF direction = "down" /\ index < Len(prev) - 1
                      THEN SwapOrder(prev, index, index + 1)
                  ELSE prev
    IN  SortByOrder(newArr)

\* mutant of moveRegion: the list is returned without the sort
moveRegion_NoSort(prev, id, direction) ==
    LET index == findIndex(prev, id)
    IN  IF direction = "up" /\ index > 0
            THEN SwapOrder(prev, index, index - 1)
        ELSE IF direction = "down" /\ index < Len(prev) - 1
            THEN SwapOrder(prev, index, index + 1)
        ELSE prev

\* mutant of moveRegion: a neighbour that is not active is not swapped with
moveRegion_ActiveNeighbour(prev, id, direction) ==
    LET index  == findIndex(prev, id)
        newArr == IF direction = "up" /\ index > 0
                      THEN IF prev[index].isActive
                              THEN SwapOrder(prev, index, index - 1) ELSE prev
                  ELSE IF direction = "down" /\ index < Len(prev) - 1
                      THEN IF prev[index + 2].isActive
                              THEN SwapOrder(prev, index, index + 1) ELSE prev
                  ELSE prev
    IN  SortByOrder(newArr)

\* mutant of moveRegion: the neighbour keeps its order and the list is
\* renumbered by position
moveRegion_Renumbers(prev, id, direction) ==
    LET index  == findIndex(prev, id)
        newArr == IF direction = "up" /\ index > 0
                      THEN [prev EXCEPT ![index + 1].order = prev[index].order - 1]
                  ELSE IF direction = "down" /\ index < Len(prev) - 1
                      THEN [prev EXCEPT ![index + 1].order = prev[index + 2].order + 1]
                  ELSE prev
    IN  SortByOrder(newArr)

\* the updater moveRegion hands to setRegions: the list it returns (it
\* returns none when moveRegionThrows)
moveRegion(prev, id, direction) ==
    LET index  == findIndex(prev, id)
        newArr == IF direction = "up" /\ index > 0
                      THEN SwapOrder(prev, index, index - 1)
                  ELSE IF direction = "down" /\ index < Len(prev) - 1
                      THEN SwapOrder(prev, index, index + 1)
                  ELSE prev
    IN  SortByOrder(newArr)

\* mutant of toggleActive: the test of the id is missing
toggleActive_All(prev, id) ==
    [i \in 1..Len(prev) |-> [prev[i] EXCEPT !.isActive = ~prev[i].isActive]]

\* mutant of toggleActive: isActive: false in place of !r.isActive
toggleActive_Off(prev, id) ==
    [i \in 1..Len(prev) |->
        IF prev[i].id = id THEN [prev[i] EXCEPT !.isActive = FALSE]
        ELSE prev[i]]

\* prev.map(r => r.id === id ? {...r, isActive: !r.isActive} : r)
toggleActive(prev, id) ==
    [i \in 1..Len(prev) |->
        IF prev[i].id = id THEN [prev[i] EXCEPT !.isActive = ~prev[i].isActive]
        ELSE prev[i]]

\* mutant of ExtractDisabled: the button looks at the state alone
ExtractDisabled_StateOnly == appState # "Interacting"

\* disabled={appState !== AppState.INTERACTING ||
\*           regions.filter(r => r.isActive).length === 0}
ExtractDisabled ==
    \/ appState # "Interacting"
    \/ Len(SelectSeq(regions, IsActive)) = 0

\* disabled={idx === 0 || !region.isActive} and
\* disabled={idx === regions.length - 1 || !region.isActive}; idx is 0-based
MoveDisabled(idx, direction) ==
    \/ ~regions[idx + 1].isActive
    \/ IF direction = "up" THEN idx = 0 ELSE idx = Len(regions) - 1


\* ------------------------------------------------------------ history
\* breaks: the segment is a reset, a logout or a failure
Hist(breaks) ==
    /\ path' = IF breaks \/ path = <<>> THEN <<>>
               ELSE IF appState' # appState THEN Append(path, appState')
               ELSE path

auth    == <<user, showLogin, showPricing>>
logic   == <<appState, image, regions, finalText, error>>
pending == <<reads, detects, extracts, nUploads, nExtracts>>

\* ------------------------------------------------------------- initial
\* useState initial values; the mount effect restores a saved user, if
\* localStorage holds one, before any event is handled.
SavedUsers == {NoUser} \cup {UserWith(c) : c \in {0, LoginCredits}}

Init ==
    /\ \E saved \in SavedUsers :
          /\ user = saved
          /\ showLogin = (saved = NoUser)
    /\ showPricing = FALSE
    /\ appState = "Idle"
    /\ image = NullImage
    /\ regions = <<>>
    /\ finalText = EmptyText
    /\ error = NoError
    /\ reads = {}
    /\ detects = {}
    /\ extracts = {}
    /\ nUploads = 0
    /\ nExtracts = 0
    /\ mounted = TRUE
    /\ lastResp = NoResp
    /\ lastCall = NoCall
    /\ path = <<"Idle">>

\* ------------------------------------------------------------- handlers
Emails == {"", "user@company.com"}

handleLogin(email) ==
    /\ showLogin
    /\ IF email = ""
          THEN UNCHANGED <<user, showLogin>>
          ELSE /\ user' = UserWith(LoginCredits)
               /\ showLogin' = FALSE
    /\ UNCHANGED <<showPricing, logic, pending>>
    /\ UNCHANGED <<lastResp, lastCall, mounted>> /\ Hist(FALSE)

\* mutant of reset: setRegions([]) is missing
reset_KeepsRegions ==
    /\ image' = NullImage
    /\ regions' = regions
    /\ finalText' = EmptyText
    /\ appState' = "Idle"
    /\ error' = NoError

\* setImage(null); setRegions([]); setFinalText(''); setAppState(IDLE);
\* setError(null)
reset ==
    /\ image' = NullImage
    /\ regions' = <<>>
    /\ finalText' = EmptyText
    /\ appState' = "Idle"
    /\ error' = NoError

handleLogout ==
    /\ mounted /\ ~showLogin
    /\ user' = NoUser
    /\ showLogin' = TRUE
    /\ reset
    /\ UNCHANGED <<showPricing, pending>>
    /\ UNCHANGED <<lastResp, lastCall, mounted>> /\ Hist(TRUE)

\* the Clear button, rendered when appState !== IDLE
Clear ==
    /\ mounted /\ ~showLogin
    /\ appState # "Idle"
    /\ reset
    /\ UNCHANGED <<auth, pending>>
    /\ UNCHANGED <<lastResp, lastCall, mounted>> /\ Hist(TRUE)

\* updateCredits as called from a render whose `user` is closureUser
updateCredits(closureUser, amount) ==
    IF closureUser = NoUser
        THEN UNCHANGED <<user, showPricing>>
        ELSE /\ user' = UserWith(Credits(closureUser) + amount)
             /\ showPricing' = FALSE

\* PricingModal onPurchase={updateCredits}
Purchase(amount) ==
    /\ mounted /\ ~showLogin
    /\ showPricing
    /\ user # NoUser => Credits(user) + amount <= MaxCredits
    /\ updateCredits(user, amount)
    /\ UNCHANGED <<showLogin, logic, pending>>
    /\ UNCHANGED <<lastResp, lastCall, mounted>> /\ Hist(FALSE)

OpenPricing ==
    /\ mounted /\ ~showLogin
    /\ ~showPricing
    /\ showPricing' = TRUE
    /\ UNCHANGED <<user, showLogin, logic, pending>>
    /\ UNCHANGED <<lastResp, lastCall, mounted>> /\ Hist(FALSE)

ClosePricing ==
    /\ mounted /\ ~showLogin
    /\ showPricing
    /\ showPricing' = FALSE
    /\ UNCHANGED <<user, showLogin, logic, pending>>
    /\ UNCHANGED <<lastResp, lastCall, mounted>> /\ Hist(FALSE)

DismissError ==
    /\ mounted /\ ~showLogin
    /\ error # NoError
    /\ error' = NoError
    /\ UNCHANGED <<auth, appState, image, regions, finalText, pending>>
    /\ UNCHANGED <<lastResp, lastCall, mounted>> /\ Hist(FALSE)

\* the file input is rendered only in the IDLE branch of the workspace
handleFileUpload(hasFile) ==
    /\ mounted /\ ~showLogin
    /\ appState = "Idle"
    /\ nUploads < MaxUploads
    /\ IF ~hasFile
          THEN /\ UNCHANGED <<logic, pending>>
               /\ UNCHANGED <<lastResp, lastCall, mounted>> /\ Hist(FALSE)
          ELSE /\ error' = NoError
               /\ appState' = "Uploading"
               /\ nUploads' = nUploads + 1
               /\ reads' = reads \cup {nUploads + 1}
               /\ UNCHANGED <<image, regions, finalText, detects, extracts, nExtracts>>
               /\ UNCHANGED <<lastResp, lastCall, mounted>> /\ Hist(FALSE)
    /\ UNCHANGED auth

\* mutant of DetectCatch: setError is missing
DetectCatch_NoError ==
    /\ error' = error
    /\ appState' = "Idle"

\* mutant of DetectThen: the state after detection is FINISHED
DetectThen_Finished(detected) ==
    /\ regions' = detected
    /\ appState' = "Finished"

\* catch of handleFileUpload.onloadend
DetectCatch ==
    /\ error' = DetectError
    /\ appState' = "Idle"

\* after the await of handleFileUpload.onloadend
DetectThen(detected) ==
    /\ regions' = detected
    /\ appState' = "Interacting"

\* reader.onloadend, up to the await: the file of upload k is decoded
onloadend(k) ==
    /\ k \in reads
    /\ reads' = reads \ {k}
    /\ image' = k
    /\ appState' = "DetectingRegions"
    /\ detects' = detects \cup {k}
    /\ UNCHANGED <<auth, regions, finalText, error, extracts, nUploads, nExtracts>>
    /\ UNCHANGED <<lastResp, lastCall, mounted>> /\ Hist(FALSE)

\* the detect call of upload k settles with resp
DetectCompletes(k, resp, ids) ==
    /\ k \in detects
    /\ detects' = detects \ {k}
    /\ LET detected == detectRegions(resp, ids) IN
       IF detected.ok
          THEN /\ DetectThen(detected.regions)
               /\ UNCHANGED <<image, finalText, error>>
               /\ lastResp' = resp /\ UNCHANGED <<lastCall, mounted>> /\ Hist(FALSE)
          ELSE /\ DetectCatch
               /\ UNCHANGED <<image, regions, finalText>>
               /\ lastResp' = resp /\ UNCHANGED <<lastCall, mounted>> /\ Hist(TRUE)
    /\ UNCHANGED <<auth, reads, extracts, nUploads, nExtracts>>

\* mutant of hasNoCredits: user.credits < 0
hasNoCredits_Negative(u) == Credits(u) < 0

\* if (user.credits <= 0)
hasNoCredits(u) == Credits(u) <= 0

\* a click on the extract button
handleExtractWithCredits ==
    /\ mounted /\ ~showLogin
    /\ nExtracts < MaxExtracts
    /\ IF ExtractDisabled
          THEN /\ UNCHANGED <<auth, logic, pending>>
               /\ UNCHANGED <<lastResp, lastCall, mounted>> /\ Hist(FALSE)
       ELSE IF user = NoUser
          THEN /\ UNCHANGED <<auth, logic, pending>>
               /\ UNCHANGED <<lastResp, lastCall, mounted>> /\ Hist(FALSE)
       ELSE IF hasNoCredits(user)
          THEN /\ showPricing' = TRUE
               /\ UNCHANGED <<user, showLogin, logic, pending>>
               /\ UNCHANGED <<lastResp, lastCall, mounted>> /\ Hist(FALSE)
       ELSE IF image = NullImage
          \* image!.split throws inside the try: EXTRACTING is overwritten
          \* by the catch before React commits
          THEN /\ error' = ExtractError
               /\ appState' = "Interacting"
               /\ UNCHANGED <<auth, image, regions, finalText, pending>>
               /\ UNCHANGED <<lastResp, lastCall, mounted>> /\ Hist(TRUE)
          ELSE /\ appState' = "Extracting"
               /\ nExtracts' = nExtracts + 1
               /\ extracts' = extracts \cup
                    {[n       |-> nExtracts + 1,
                      img     |-> image,
                      regions |-> regions,
                      credits |-> Credits(user),
                      sent    |-> activeRegions(regions),
                      prompt  |-> regionsDescription(activeRegions(regions)),
                      remote  |-> issuesRemoteCall(regions)]}
               /\ UNCHANGED <<auth, image, regions, finalText, error,
                              reads, detects, nUploads>>
               /\ UNCHANGED <<lastResp, lastCall, mounted>> /\ Hist(FALSE)

\* after the await of handleExtractWithCredits
ExtractThen(e, result) ==
    /\ updateCredits(UserWith(e.credits), -1)
    /\ finalText' = result
    /\ appState' = "Finished"

\* catch of handleExtractWithCredits
ExtractCatch ==
    /\ error' = ExtractError
    /\ appState' = "Interacting"

Outcomes == {"text", "empty", "rejected"}

\* the extract call e settles: response.text, response.text || "" or a
\* rejection; without a remote call the promise resolves with ""
ExtractCompletes(e, outcome) ==
    /\ e \in extracts
    /\ ~e.remote => outcome = "empty"
    /\ extracts' = extracts \ {e}
    /\ IF outcome = "rejected"
          THEN /\ ExtractCatch
               /\ UNCHANGED <<auth, image, regions, finalText>>
               /\ UNCHANGED <<lastResp, lastCall, mounted>> /\ Hist(TRUE)
          ELSE /\ ExtractThen(e, IF outcome = "text" THEN e.img ELSE EmptyText)
               /\ UNCHANGED <<showLogin, image, regions, error>>
               /\ UNCHANGED <<lastResp, lastCall, mounted>> /\ Hist(FALSE)
    /\ UNCHANGED <<reads, detects, nUploads, nExtracts>>

Directions == {"up", "down"}

\* the move buttons of sidebar row idx (0-based)
Move(idx, direction) ==
    /\ mounted /\ ~showLogin
    /\ idx \in 0..(Len(regions) - 1)
    /\ ~MoveDisabled(idx, direction)
    /\ regions' = moveRegion(regions, regions[idx + 1].id, direction)
    /\ UNCHANGED <<auth, appState, image, finalText, error, pending>>
    /\ UNCHANGED <<lastResp, lastCall, mounted>> /\ Hist(FALSE)

\* the toggle button of sidebar row idx (0-based); RegionOverlay's
\* onToggleRegion hands the same updater an id of the list
Toggle(idx) ==
    /\ mounted /\ ~showLogin
    /\ idx \in 0..(Len(regions) - 1)
    /\ regions' = toggleActive(regions, regions[idx + 1].id)
    /\ UNCHANGED <<auth, appState, image, finalText, error, pending>>
    /\ UNCHANGED <<lastResp, lastCall, mounted>> /\ Hist(FALSE)

Next ==
    \/ \E email \in Emails : handleLogin(email)
    \/ handleLogout
    \/ Clear
    \/ \E amount \in PurchaseAmounts : Purchase(amount)
    \/ OpenPricing
    \/ ClosePricing
    \/ DismissError
    \/ \E hasFile \in BOOLEAN : handleFileUpload(hasFile)
    \/ \E k \in reads : onloadend(k)
    \/ \E k \in detects, resp \in WorkflowResponses,
          ids \in WorkflowDraws : DetectCompletes(k, resp, ids)
    \/ handleExtractWithCredits
    \/ \E e \in extracts, outcome \in Outcomes : ExtractCompletes(e, outcome)
    \/ \E idx \in 0..(MaxEntries - 1), direction \in Directions : Move(idx, direction)
    \/ \E idx \in 0..(MaxEntries - 1) : Toggle(idx)

Spec == Init /\ [][Next]_vars


\* ------------------------------------------------- detectRegions alone
\* The state in which the detect call of the first upload is awaited, and
\* the call settling with any response and any draw of ids.
InitDetect ==
    /\ user = UserWith(LoginCredits)
    /\ showLogin = FALSE
    /\ showPricing = FALSE
    /\ appState = "DetectingRegions"
    /\ image = 1
    /\ regions = <<>>
    /\ finalText = EmptyText
    /\ error = NoError
    /\ reads = {}
    /\ detects = {1}
    /\ extracts = {}
    /\ nUploads = 1
    /\ nExtracts = 0
    /\ mounted = TRUE
    /\ lastResp = NoResp
    /\ lastCall = NoCall
    /\ path = <<"Idle", "Uploading", "DetectingRegions">>

NextDetect ==
    \E resp \in Responses(Entries, MaxFnEntries),
       ids \in [1..MaxFnEntries -> 1..MaxFnEntries] : DetectCompletes(1, resp, ids)

SpecDetect == InitDetect /\ [][NextDetect]_vars

\* ------------------------------------------- the list operations alone
\* moveRegion and the toggle updater called with any id, one the list has
\* or not, on the lists detection makes (any draw of ids) and the lists
\* the calls make of them.
CallIds == 0..MaxFnEntries      \* 0: an id no region was given

\* responses of 0..MaxFnEntries well-formed entries; neighbouring entries
\* differ in their description, so that two regions of one id are told apart
ListResponses ==
    {[kind |-> "array", entries |-> es] :
        es \in {[i \in 1..n |->
                    Entry(IF i % 2 = 1 THEN "Title" ELSE "Body", Box)] :
                 n \in 0..MaxFnEntries}}

\* moveRegion(id, direction): setRegions(prev => ...); an updater that
\* throws takes the component down and leaves no new list
moveRegionCall(id, direction) ==
    /\ mounted
    /\ lastCall' = [op |-> "move", id |-> id, direction |-> direction,
                    prev |-> regions]
    /\ IF moveRegionThrows(regions, id, direction)
          THEN /\ mounted' = FALSE
               /\ regions' = regions
          ELSE /\ mounted' = TRUE
               /\ regions' = moveRegion(regions, id, direction)
    /\ UNCHANGED <<auth, appState, image, finalText, error, pending, lastResp>>
    /\ Hist(FALSE)

\* onToggleRegion(id): setRegions(prev => prev.map(...))
onToggleRegion(id) ==
    /\ mounted
    /\ lastCall' = [op |-> "toggle", id |-> id, direction |-> "none",
                    prev |-> regions]
    /\ regions' = toggleActive(regions, id)
    /\ UNCHANGED <<auth, appState, image, finalText, error, pending,
                   lastResp, mounted>>
    /\ Hist(FALSE)

InitList ==
    /\ user = UserWith(LoginCredits)
    /\ showLogin = FALSE
    /\ showPricing = FALSE
    /\ appState = "Interacting"
    /\ image = 1
    /\ \E resp \in ListResponses :
          \E ids \in [1..Len(resp.entries) -> 1..MaxFnEntries] :
              regions = detectRegions(resp, ids).regions
    /\ finalText = EmptyText
    /\ error = NoError
    /\ reads = {}
    /\ detects = {}
    /\ extracts = {}
    /\ nUploads = 1
    /\ nExtracts = 0
    /\ mounted = TRUE
    /\ lastResp = NoResp
    /\ lastCall = NoCall
    /\ path = <<"Idle", "Uploading", "DetectingRegions", "Interacting">>

NextList ==
    \/ \E id \in CallIds, direction \in Directions : moveRegionCall(id, direction)
    \/ \E id \in CallIds : onToggleRegion(id)

SpecList == InitList /\ [][NextList]_vars

\* ---------------------------------------- extractTextFromRegions alone
\* The lists extractTextFromRegions is given: regions in any positions,
\* with pairwise distinct order values, each active or not.
ExtractInputs ==
    UNION {{[i \in 1..n |->
                [id |-> i, description |-> "Title", box |-> Box,
                 order |-> o[i], isActive |-> a[i]]] :
              o \in {f \in [1..n -> 1..MaxSent] :
                        \A i, j \in 1..n : i # j => f[i] # f[j]},
              a \in [1..n -> BOOLEAN]} : n \in 0..MaxSent}

InitExtract ==
    /\ \E saved \in SavedUsers :
          /\ user = saved
          /\ showLogin = (saved = NoUser)
    /\ showPricing = FALSE
    /\ appState = "Interacting"
    /\ image = 1
    /\ regions \in ExtractInputs
    /\ finalText = EmptyText
    /\ error = NoError
    /\ reads = {}
    /\ detects = {}
    /\ extracts = {}
    /\ nUploads = 1
    /\ nExtracts = 0
    /\ mounted = TRUE
    /\ lastResp = NoResp
    /\ lastCall = NoCall
    /\ path = <<"Idle", "Uploading", "DetectingRegions", "Interacting">>

\* handleExtractWithCredits run by a caller that asks no button and sees no
\* page: the function itself tests the user and the credits, not the list,
\* and hands image and regions to extractTextFromRegions
extractTextFromRegionsCall ==
    /\ mounted
    /\ nExtracts < MaxExtracts
    /\ appState = "Interacting"
    /\ IF user = NoUser
          THEN /\ UNCHANGED <<auth, logic, pending>>
               /\ UNCHANGED <<lastResp, lastCall, mounted>> /\ Hist(FALSE)
       ELSE IF hasNoCredits(user)
          THEN /\ showPricing' = TRUE
               /\ UNCHANGED <<user, showLogin, logic, pending>>
               /\ UNCHANGED <<lastResp, lastCall, mounted>> /\ Hist(FALSE)
       ELSE IF image = NullImage
          THEN /\ error' = ExtractError
               /\ appState' = "Interacting"
               /\ UNCHANGED <<auth, image, regions, finalText, pending>>
               /\ UNCHANGED <<lastResp, lastCall, mounted>> /\ Hist(TRUE)
          ELSE /\ appState' = "Extracting"
               /\ nExtracts' = nExtracts + 1
               /\ extracts' = extracts \cup
                    {[n       |-> nExtracts + 1,
                      img     |-> image,
                      regions |-> regions,
                      credits |-> Credits(user),
                      sent    |-> activeRegions(regions),
                      prompt  |-> regionsDescription(activeRegions(regions)),
                      remote  |-> issuesRemoteCall(regions)]}
               /\ UNCHANGED <<auth, image, regions, finalText, error,
                              reads, detects, nUploads>>
               /\ UNCHANGED <<lastResp, lastCall, mounted>> /\ Hist(FALSE)

NextExtract ==
    \/ handleExtractWithCredits
    \/ extractTextFromRegionsCall
    \/ \E e \in extracts, outcome \in Outcomes : ExtractCompletes(e, outcome)

SpecExtract == InitExtract /\ [][NextExtract]_vars

\* ================================================================ claims

Table ==
    {<<"Idle", "Uploading">>, <<"Uploading", "DetectingRegions">>,
     <<"DetectingRegions", "Interacting">>, <<"DetectingRegions", "Idle">>,
     <<"Interacting", "Extracting">>, <<"Extracting", "Finished">>,
     <<"Extracting", "Interacting">>}

ResetInvoked == Clear \/ handleLogout

\* C1: every change of the workflow state is a transition of the table of
\* section 4.5, or a reset out of a non-Idle state.
C1_OnlyTableTransitions ==
    [][appState' # appState =>
         \/ <<appState, appState'>> \in Table
         \/ ResetInvoked /\ appState # "Idle" /\ appState' = "Idle"]_vars

HappyPath == <<"Idle", "Uploading", "DetectingRegions", "Interacting",
               "Extracting", "Finished">>

\* C2: as long as no reset, logout or failure has happened, the workflow
\* states visited so far are an initial part of Idle, Uploading,
\* DetectingRegions, Interacting, Extracting, Finished, ending in the
\* current state; so a run that reaches Finished has visited exactly the
\* six, in order, each once.
C2_HappyPathInOrder ==
    path # <<>> =>
        /\ Len(path) <= Len(HappyPath)
        /\ path = SubSeq(HappyPath, 1, Len(path))
        /\ path[Len(path)] = appState

C2_Witness == path = HappyPath /\ appState = "Finished"

\* C3: at most one detect call and at most one extract call is in flight.
C3_OneCallInFlight ==
    /\ Cardinality(detects) <= 1
    /\ Cardinality({e \in extracts : e.remote}) <= 1

\* C4: a reset (the Clear button, or the reset of a logout) out of a
\* non-Idle state leaves Idle, no image, no regions and no result text.
C4_ResetClears ==
    [][(ResetInvoked /\ appState # "Idle") =>
         /\ appState' = "Idle"
         /\ image' = NullImage
         /\ regions' = <<>>
         /\ finalText' = EmptyText]_vars

\* a reset has acted on a finished extraction: a state only a reset leaves
C4_Witness ==
    /\ appState = "Idle" /\ image = NullImage /\ regions = <<>>
    /\ finalText = EmptyText /\ error = NoError
    /\ nExtracts > 0 /\ extracts = {} /\ detects = {} /\ reads = {}
    /\ user # NoUser /\ Credits(user) < LoginCredits


\* C5: when the extract call fails in Extracting, the state becomes
\* Interacting, an error is set, the region list is the list the
\* extraction was requested with, and result text and credits are as before.
C5_ExtractFailureKeepsAll ==
    [][\A e \in extracts :
          (ExtractCompletes(e, "rejected") /\ appState = "Extracting") =>
              /\ appState' = "Interacting"
              /\ error' # NoError
              /\ regions' = e.regions
              /\ finalText' = finalText
              /\ user' = user]_vars

DetectFails(k, resp, ids) ==
    DetectCompletes(k, resp, ids) /\ ~detectRegions(resp, ids).ok

\* C6: when the detect call fails in DetectingRegions, the state becomes
\* Idle, an error message is set and the region list stays as it was.
C6_DetectFailureToIdle ==
    [][\A k \in detects, resp \in WorkflowResponses, ids \in WorkflowDraws :
          (DetectFails(k, resp, ids) /\ appState = "DetectingRegions") =>
              /\ appState' = "Idle"
              /\ error' # NoError
              /\ regions' = regions]_vars

C6_Witness ==
    /\ appState = "Idle" /\ error = DetectError /\ image # NullImage
    /\ lastResp.kind \in {"rejected", "invalidJson", "notArray"}

EmptyOrMalformed(resp) ==
    \/ resp.kind \in {"noText", "invalidJson", "notArray"}
    \/ /\ resp.kind = "array"
       /\ \/ resp.entries = <<>>
          \/ \E i \in 1..Len(resp.entries) : resp.entries[i] \notin WellFormedEntries

\* C7: a detect call that settled with an empty or malformed response has
\* failed: the workflow is back in Idle with the error set and no region
\* list was made of the response.
C7_EmptyOrMalformedFails ==
    (detects = {} /\ EmptyOrMalformed(lastResp)) =>
        /\ appState = "Idle"
        /\ error = DetectError
        /\ regions = <<>>

\* C8: the state becomes Extracting, and an extract call is issued, only
\* from Interacting with an active region in the list; a click on the
\* extract button in any other situation changes nothing and issues no call.
C8_ExtractOnlyWhenAllowed ==
    [][/\ ((appState' = "Extracting" /\ appState # "Extracting")
             \/ extracts' \ extracts # {}) =>
                /\ appState = "Interacting"
                /\ \E i \in 1..Len(regions) : regions[i].isActive
       /\ (handleExtractWithCredits /\ ExtractDisabled) =>
                UNCHANGED <<auth, logic, pending>>]_vars

C8_Witness ==
    /\ appState = "Extracting"
    /\ \E e \in extracts : e.remote /\ e.img = image /\ e.regions = regions

\* C9: while the state is Extracting the region list does not change.
C9_RegionsFrozenWhileExtracting ==
    [][(appState = "Extracting" /\ appState' = "Extracting") =>
          regions' = regions]_vars

\* C10: of a response with N >= 0 well-formed entries detectRegions makes a
\* list of exactly N regions in the order received; the region at 0-based
\* position i has order i + 1, so the orders are exactly 1..N, and every
\* region is active.
C10_DetectedList ==
    (detects = {} /\ WellFormed(lastResp)) =>
        /\ appState = "Interacting"
        /\ Len(regions) = Len(lastResp.entries)
        /\ \A p \in 1..Len(regions) :
              /\ regions[p].order = (p - 1) + 1
              /\ regions[p].isActive
              /\ regions[p].description = lastResp.entries[p].description
              /\ regions[p].box = lastResp.entries[p].box
        /\ {regions[p].order : p \in 1..Len(regions)} = 1..Len(lastResp.entries)

C10_Witness ==
    /\ detects = {} /\ WellFormed(lastResp)
    /\ Len(lastResp.entries) = MaxFnEntries
    /\ Len(regions) = MaxFnEntries

\* C11: all regions of the region list have pairwise distinct ids.
C11_IdsDistinct ==
    \A p, q \in 1..Len(regions) : p # q => regions[p].id # regions[q].id

\* C12: moveRegion with an id the list lacks returns the list unchanged and
\* raises no error, for both directions and every list.
C12_AbsentIdNoOp ==
    (lastCall.op = "move" /\ findIndex(lastCall.prev, lastCall.id) = -1) =>
        /\ mounted
        /\ regions = lastCall.prev

\* C13: moveRegion changes nothing when the target is the first region and
\* the direction is 'up', and when the target is the last region and the
\* direction is 'down'.
C13_EdgeMovesNoOp ==
    LET index == findIndex(lastCall.prev, lastCall.id) IN
    (/\ lastCall.op = "move"
     /\ index >= 0
     /\ \/ lastCall.direction = "up" /\ index = 0
        \/ lastCall.direction = "down" /\ index = Len(lastCall.prev) - 1) =>
        /\ mounted
        /\ regions = lastCall.prev

C13_Witness ==
    /\ lastCall.op = "move" /\ lastCall.direction = "up"
    /\ Len(lastCall.prev) >= 2
    /\ findIndex(lastCall.prev, lastCall.id) = 0
    /\ regions = lastCall.prev

\* C14: on a list made by detection, moves and toggles, moving a region
\* that is not first up and then the same region down gives the list back.
C14_UpThenDownIsIdentity ==
    (/\ lastCall.op = "move" /\ lastCall.direction = "up"
     /\ findIndex(lastCall.prev, lastCall.id) > 0) =>
        /\ mounted
        /\ ~moveRegionThrows(regions, lastCall.id, "down")
        /\ moveRegion(regions, lastCall.id, "down") = lastCall.prev

C14_Witness ==
    /\ lastCall.op = "move" /\ lastCall.direction = "up"
    /\ findIndex(lastCall.prev, lastCall.id) > 0
    /\ regions # lastCall.prev
    /\ moveRegion(regions, lastCall.id, "down") = lastCall.prev

MoveSucceeds(prev, id, direction) ==
    \/ direction = "up" /\ findIndex(prev, id) > 0
    \/ /\ direction = "down" /\ findIndex(prev, id) >= 0
       /\ findIndex(prev, id) < Len(prev) - 1

\* C15: a moveRegion call keeps the multiset of order values and the set of
\* ids; a move that succeeds exchanges the order values of the target and
\* its neighbour and changes no other order and no other field.
C15_MoveExchangesTwoOrders ==
    lastCall.op = "move" =>
        LET L == lastCall.prev
            t == findIndex(L, lastCall.id) + 1
            n == IF lastCall.direction = "up" THEN t - 1 ELSE t + 1
        IN  /\ Len(regions) = Len(L)
            /\ \A v \in {L[p].order : p \in 1..Len(L)}
                       \cup {regions[p].order : p \in 1..Len(regions)} :
                  Cardinality({p \in 1..Len(L) : L[p].order = v})
                    = Cardinality({p \in 1..Len(regions) : regions[p].order = v})
            /\ {L[p].id : p \in 1..Len(L)}
                  = {regions[p].id : p \in 1..Len(regions)}
            /\ MoveSucceeds(L, lastCall.id, lastCall.direction) =>
                  /\ L[t].order # L[n].order
                  /\ regions[n] = [L[t] EXCEPT !.order = L[n].order]
                  /\ regions[t] = [L[n] EXCEPT !.order = L[t].order]
                  /\ \A p \in 1..Len(L) : p \notin {t, n} => regions[p] = L[p]

C15_Witness ==
    /\ lastCall.op = "move"
    /\ MoveSucceeds(lastCall.prev, lastCall.id, lastCall.direction)
    /\ Len(lastCall.prev) = MaxFnEntries
    /\ regions # lastCall.prev

\* C16: moveRegion on a target that is not active changes nothing.
C16_InactiveTargetNoOp ==
    LET index == findIndex(lastCall.prev, lastCall.id) IN
    (/\ lastCall.op = "move"
     /\ index >= 0
     /\ ~lastCall.prev[index + 1].isActive) =>
        regions = lastCall.prev

\* C17: moveRegion and the toggle updater leave the records of the list
\* they were called on as they were, so the same updater run again on the
\* same list returns what it returned the first time.
C17_UpdatersDoNotMutate ==
    /\ (/\ lastCall.op = "move"
        /\ ~moveRegionThrows(lastCall.prev, lastCall.id, lastCall.direction)) =>
          /\ moveRegionPrev(lastCall.prev, lastCall.id, lastCall.direction)
                = lastCall.prev
          /\ moveRegion(moveRegionPrev(lastCall.prev, lastCall.id,
                                       lastCall.direction),
                        lastCall.id, lastCall.direction) = regions
    /\ lastCall.op = "toggle" =>
          toggleActive(lastCall.prev, lastCall.id) = regions

\* C18: toggling an id flips isActive of the region with that id and
\* changes nothing else: id, order, box and description of every region,
\* isActive of the regions with another id and the positions stay; with
\* no region of that id the list is unchanged.
C18_ToggleFlipsOnlyTarget ==
    lastCall.op = "toggle" =>
        LET L == lastCall.prev IN
        /\ Len(regions) = Len(L)
        /\ \A p \in 1..Len(L) :
              /\ regions[p].id = L[p].id
              /\ regions[p].order = L[p].order
              /\ regions[p].box = L[p].box
              /\ regions[p].description = L[p].description
              /\ regions[p].isActive =
                    (IF L[p].id = lastCall.id THEN ~L[p].isActive
                                              ELSE L[p].isActive)
        /\ (\A p \in 1..Len(L) : L[p].id # lastCall.id) => regions = L

C18_Witness ==
    /\ lastCall.op = "toggle"
    /\ \E p, q \in 1..Len(lastCall.prev) :
          /\ lastCall.prev[p].id = lastCall.id
          /\ lastCall.prev[q].id # lastCall.id
          /\ regions[p].isActive # lastCall.prev[p].isActive
          /\ regions[q] = lastCall.prev[q]

\* C19: toggling the same id twice in a row gives the list back.
C19_ToggleTwiceIsIdentity ==
    lastCall.op = "toggle" =>
        toggleActive(regions, lastCall.id) = lastCall.prev

C19_Witness ==
    /\ lastCall.op = "toggle"
    /\ regions # lastCall.prev
    /\ toggleActive(regions, lastCall.id) = lastCall.prev

\* C20: what extractTextFromRegions serializes is the active regions of
\* the list it was given, each once, in strictly ascending order of their
\* order values, whatever their positions; no inactive region is sent.
C20_SentActiveAscending ==
    \A e \in extracts :
        /\ \A i \in 1..Len(e.sent) :
              /\ e.sent[i].isActive
              /\ \E p \in 1..Len(e.regions) : e.regions[p] = e.sent[i]
        /\ \A p \in 1..Len(e.regions) :
              e.regions[p].isActive =>
                  Cardinality({i \in 1..Len(e.sent) : e.sent[i] = e.regions[p]}) = 1
        /\ \A i, j \in 1..Len(e.sent) :
              i < j => e.sent[i].order < e.sent[j].order

\* active A, B, C with orders 3, 1, 2 and inactive D are sent as B, C, A
C20_Witness ==
    \E e \in extracts :
        /\ Len(e.regions) = 4
        /\ <<e.regions[1].order, e.regions[2].order, e.regions[3].order>>
              = <<3, 1, 2>>
        /\ e.regions[1].isActive /\ e.regions[2].isActive
        /\ e.regions[3].isActive /\ ~e.regions[4].isActive
        /\ e.sent = <<e.regions[2], e.regions[3], e.regions[1]>>

NoActive(list) == \A p \in 1..Len(list) : ~list[p].isActive

\* C21: extractTextFromRegions given a list without an active region (the
\* empty list too) issues no remote call and returns the empty string.
C21_NoActiveNoCall ==
    /\ \A e \in extracts :
          NoActive(e.regions) => (~e.remote /\ e.sent = <<>>)
    /\ (NoActive(regions) /\ nExtracts > 0 /\ extracts = {}) =>
          /\ appState = "Finished"
          /\ finalText = EmptyText
          /\ error = NoError

C21_Witness ==
    /\ Len(regions) >= 1 /\ NoActive(regions)
    /\ nExtracts = 1 /\ extracts = {}
    /\ appState = "Finished" /\ finalText = EmptyText

\* C22: a move of an active region that is not at the boundary exchanges
\* its order with the region at the neighbouring list position also when
\* that neighbour is not active.
C22_MovePastInactive ==
    LET L == lastCall.prev
        t == findIndex(L, lastCall.id) + 1
        n == IF lastCall.direction = "up" THEN t - 1 ELSE t + 1
    IN  (/\ lastCall.op = "move"
         /\ MoveSucceeds(L, lastCall.id, lastCall.direction)
         /\ L[t].isActive
         /\ ~L[n].isActive) =>
            /\ regions[n].id = L[t].id /\ regions[n].order = L[n].order
            /\ regions[t].id = L[n].id /\ regions[t].order = L[t].order
            /\ ~regions[t].isActive

C22_Witness ==
    LET L == lastCall.prev
        t == findIndex(L, lastCall.id) + 1
        n == IF lastCall.direction = "up" THEN t - 1 ELSE t + 1
    IN  /\ lastCall.op = "move"
        /\ MoveSucceeds(L, lastCall.id, lastCall.direction)
        /\ L[t].isActive /\ ~L[n].isActive
        /\ L[t].id # L[n].id
        /\ regions[n].id = L[t].id

\* C23: the region list is sorted by strictly ascending order and its
\* orders are exactly 1..N: the region at 0-based position i has order i + 1.
C23_SortedOneToN ==
    \A p \in 1..Len(regions) : regions[p].order = (p - 1) + 1

\* a move has acted: the region detected second stands first
C23_Witness ==
    /\ Len(regions) >= 2
    /\ regions[1].id = 2 /\ regions[1].order = 1
    /\ regions[2].id = 1 /\ regions[2].order = 2

\* C24: for every region sent, the request carries its order, its
\* description and its four box coordinates.
C24_RequestCarriesAllFields ==
    \A e \in extracts :
        /\ Len(e.prompt) = Len(e.sent)
        /\ \A i \in 1..Len(e.sent) :
              /\ e.prompt[i].order = e.sent[i].order
              /\ e.prompt[i].box = e.sent[i].box
              /\ "description" \in DOMAIN e.prompt[i]
              /\ e.prompt[i].description = e.sent[i].description

Cleared ==
    /\ appState = "Idle" /\ image = NullImage
    /\ regions = <<>> /\ finalText = EmptyText

Completion ==
    \/ \E k \in reads : onloadend(k)
    \/ \E k \in detects, resp \in WorkflowResponses, ids \in WorkflowDraws :
          DetectCompletes(k, resp, ids)
    \/ \E e \in extracts, outcome \in Outcomes : ExtractCompletes(e, outcome)

\* C25: after a reset or logout the workflow stays Idle and cleared until
\* the next file is selected: a file read, detect call or extract call
\* begun before the reset that completes afterwards writes neither image,
\* regions, result, state nor credits.
C25_StaleCompletionWritesNothing ==
    [][(Cleared /\ Completion) =>
          UNCHANGED <<appState, image, regions, finalText, user>>]_vars

\* C26: regions, result and state belong to the image uploaded last: the
\* completion of a read, detect call or extract call of an older upload
\* changes none of image, regions, result and state.
C26_OlderUploadWritesNothing ==
    [][/\ \A k \in reads \cup detects :
             (/\ k < nUploads
              /\ \/ onloadend(k)
                 \/ \E resp \in WorkflowResponses, ids \in WorkflowDraws :
                       DetectCompletes(k, resp, ids)) =>
                 UNCHANGED <<appState, image, regions, finalText>>
       /\ \A e \in extracts :
             (/\ e.img < nUploads
              /\ \E outcome \in Outcomes : ExtractCompletes(e, outcome)) =>
                 UNCHANGED <<appState, image, regions, finalText>>]_vars

\* C27: an extraction that succeeds lowers the balance by exactly one from
\* the balance at the moment it completes, so credits purchased while the
\* call was in flight stay in the balance.
C27_DebitsOneFromCurrentBalance ==
    [][\A e \in extracts :
          (/\ appState = "Extracting" /\ extracts = {e}
           /\ user # NoUser
           /\ \E outcome \in {"text", "empty"} : ExtractCompletes(e, outcome)) =>
              user' = UserWith(Credits(user) - 1)]_vars

\* C28: in Interacting, Extracting and Finished the image is not null.
C28_ImageSetWhenWorking ==
    appState \in {"Interacting", "Extracting", "Finished"} => image # NullImage

\* C29: in Idle the region list and the result text are empty.
C29_IdleIsEmpty ==
    appState = "Idle" => (regions = <<>> /\ finalText = EmptyText)

\* C30: in Finished no error message is set.
C30_FinishedWithoutError ==
    appState = "Finished" => error = NoError

\* the handler runs: a click on the enabled button, or a direct call
ExtractRequested ==
    \/ handleExtractWithCredits /\ ~ExtractDisabled
    \/ extractTextFromRegionsCall

\* C31: a request to extract made with no user or with a balance <= 0
\* issues no call and leaves state, image, regions, result, error and
\* balance as they are (with a user it opens the pricing dialog, without
\* one it changes nothing at all); so every call is issued with a
\* balance >= 1.
C31_NoCreditNoCall ==
    [][/\ (ExtractRequested /\ user = NoUser) =>
              UNCHANGED <<appState, image, regions, finalText, error,
                          user, showPricing, extracts, nExtracts>>
       /\ (ExtractRequested /\ user # NoUser /\ Credits(user) <= 0) =>
              /\ UNCHANGED <<appState, image, regions, finalText, error,
                             user, extracts, nExtracts>>
              /\ showPricing'
       /\ \A e \in extracts' \ extracts :
              /\ user # NoUser
              /\ Credits(user) >= 1
              /\ e.credits >= 1]_vars

\* the request of a user without credits has opened the pricing dialog
C31_Witness ==
    /\ user # NoUser /\ Credits(user) = 0
    /\ showPricing
    /\ appState = "Interacting" /\ ~NoActive(regions)
    /\ nExtracts = 0 /\ extracts = {}

====
